---- MODULE Spec2Model ----
(***************************************************************************)
(* Model of syncdate.py (rstoredate 2.2.0): timestamp parsing/formatting,  *)
(* tag selection, the metadata and filesystem writers, the two per-file    *)
(* operations (restore from own metadata, sync from source), the source    *)
(* index and the main loop with its exit status.                           *)
(*                                                                         *)
(* Text is modelled as a sequence of atoms.  Timestamp values, offsets and *)
(* whitespace are sequences of single characters, so that the regular      *)
(* expressions, int(), strip() and strftime() are computed character by    *)
(* character; fixed message fragments and tool outputs are longer atoms.   *)
(* Python's None for an optional string is the empty sequence (both are    *)
(* falsy in every test the code makes).                                    *)
(***************************************************************************)
EXTENDS Integers, Sequences, FiniteSets, TLC

VARIABLES
    libc,        \* platform C library behaviour behind datetime.strftime
    call,        \* function-level specifications: the call under test
    ret,         \* function-level specifications: what the call returned
    pc,          \* main(): position in the function
    args,        \* main(): parsed command line (argparse namespace)
    env,         \* main(): what the machine holds (tool, folders, files)
    targets,     \* main(): the enumerated target list
    src_index,   \* main(): source index built once per run
    idx,         \* main(): number of loop iterations started
    processed,   \* main(): counter
    succeeded,   \* main(): counter
    failed,      \* main(): counter
    exitcode,    \* main(): process exit status, NoExit while running
    last         \* main(): outcome of the most recent loop iteration

vars == <<libc, call, ret, pc, args, env, targets, src_index, idx,
          processed, succeeded, failed, exitcode, last>>

runvars == <<pc, args, env, targets, src_index, idx,
             processed, succeeded, failed, exitcode, last>>

----------------------------------------------------------------------------
(* Characters and elementary string functions                              *)

DigitChars == <<"0", "1", "2", "3", "4", "5", "6", "7", "8", "9">>

Digits == {DigitChars[i] : i \in 1..10}

\* \s of the re module, restricted to the characters of the model
Whitespace == {" ", "\t", "\n"}

DigitVal(ch) == (CHOOSE i \in 1..10 : DigitChars[i] = ch) - 1

\* int() of a digit string
RECURSIVE IntOf(_)
IntOf(s) ==
    IF s = <<>> THEN 0
    ELSE 10 * IntOf(SubSeq(s, 1, Len(s) - 1)) + DigitVal(s[Len(s)])

\* decimal text of a natural number, no padding
RECURSIVE Decimal(_)
Decimal(n) ==
    IF n < 10 THEN <<DigitChars[n + 1]>>
    ELSE Decimal(n \div 10) \o <<DigitChars[(n % 10) + 1]>>

\* decimal text zero-padded on the left to width w
RECURSIVE ZeroPad(_, _)
ZeroPad(s, w) == IF Len(s) >= w THEN s ELSE ZeroPad(<<"0">> \o s, w)

\* str.strip(): drop leading and trailing whitespace
RECURSIVE lstrip(_)
lstrip(s) ==
    IF s # <<>> /\ s[1] \in Whitespace THEN lstrip(Tail(s)) ELSE s

RECURSIVE rstrip(_)
rstrip(s) ==
    IF s # <<>> /\ s[Len(s)] \in Whitespace
    THEN rstrip(SubSeq(s, 1, Len(s) - 1)) ELSE s

strip(s) == rstrip(lstrip(s))

\* str.upper() on the characters of the model
UpperChar(ch) ==
    CASE ch = "z" -> "Z"
      [] ch = "a" -> "A"
      [] OTHER    -> ch

upper(s) == [i \in 1..Len(s) |-> UpperChar(s[i])]

AllDigits(s, a, b) == \A i \in a..b : s[i] \in Digits

\* first position >= i of s that is not in set cs (Len(s)+1 if none)
RunEnd(s, i, cs) ==
    CHOOSE k \in i..(Len(s) + 1) :
        /\ \A j \in i..(k - 1) : s[j] \in cs
        /\ (k = Len(s) + 1 \/ s[k] \notin cs)

----------------------------------------------------------------------------
(* Timestamp parser / formatter                                            *)

\* (Z|[+-]\d{2}:\d{2}) matched against a whole string
IsTzSuffix(t) ==
    \/ t = <<"Z">>
    \/ /\ Len(t) = 6
       /\ t[1] \in {"+", "-"}
       /\ AllDigits(t, 2, 3)
       /\ t[4] = ":"
       /\ AllDigits(t, 5, 6)

\* TZ_RE.search(val): the value ends in Z or in [+-]dd:dd
TZ_RE_search(val) ==
    \/ (Len(val) >= 1 /\ IsTzSuffix(SubSeq(val, Len(val), Len(val))))
    \/ (Len(val) >= 6 /\ IsTzSuffix(SubSeq(val, Len(val) - 5, Len(val))))

\* DT_RE.match(s): the eight groups, or ok = FALSE when there is no match
DT_RE_match(s) ==
    LET n    == Len(s)
        fail == [ok |-> FALSE]
    IN
    IF ~ ( /\ n >= 11
           /\ AllDigits(s, 1, 4) /\ s[5] = ":"
           /\ AllDigits(s, 6, 7) /\ s[8] = ":"
           /\ AllDigits(s, 9, 10)
           /\ s[11] \in Whitespace )
    THEN fail
    ELSE
    LET t == RunEnd(s, 11, Whitespace) IN
    IF ~ ( /\ t + 7 <= n
           /\ AllDigits(s, t, t + 1) /\ s[t + 2] = ":"
           /\ AllDigits(s, t + 3, t + 4) /\ s[t + 5] = ":"
           /\ AllDigits(s, t + 6, t + 7) )
    THEN fail
    ELSE
    LET f0      == t + 8
        hasFrac == f0 + 1 <= n /\ s[f0] = "." /\ s[f0 + 1] \in Digits
        f1      == IF hasFrac THEN RunEnd(s, f0 + 1, Digits) ELSE f0
        rest    == SubSeq(s, f1, n)
    IN
    IF ~ (rest = <<>> \/ IsTzSuffix(rest))
    THEN fail
    ELSE [ok |-> TRUE,
          y  |-> SubSeq(s, 1, 4),      mo |-> SubSeq(s, 6, 7),
          d  |-> SubSeq(s, 9, 10),     hh |-> SubSeq(s, t, t + 1),
          mm |-> SubSeq(s, t + 3, t + 4),
          ss |-> SubSeq(s, t + 6, t + 7),
          frac |-> SubSeq(s, f0, f1 - 1),
          tzs  |-> rest]

IsLeap(y) == (y % 4 = 0) /\ ((y % 100 # 0) \/ (y % 400 = 0))

DaysInMonth(y, m) ==
    CASE m \in {1, 3, 5, 7, 8, 10, 12} -> 31
      [] m \in {4, 6, 9, 11}           -> 30
      [] OTHER                         -> IF IsLeap(y) THEN 29 ELSE 28

\* the range checks of the datetime constructor
ValidDateTime(y, mo, d, hh, mm, ss) ==
    /\ y \in 1..9999
    /\ mo \in 1..12
    /\ d \in 1..DaysInMonth(y, mo)
    /\ hh \in 0..23
    /\ mm \in 0..59
    /\ ss \in 0..59

\* result of a call that raised
Raise(kind, text) == [ok |-> FALSE, exc |-> kind, msg |-> text]

\* parse_exif_dt is modelled in steps, each handed what the steps before it
\* computed: the match m, then the datetime built from its groups.

\* the tzinfo of the parsed datetime: none for a naive text, UTC for Z,
\* else the offset, which timezone() accepts only strictly inside
\* (-24h, 24h)
parse_zone(m, naive) ==
    IF m.tzs = <<>>
    THEN [ok |-> TRUE, dt |-> naive, frac |-> m.frac, tzs |-> m.tzs]
    ELSE IF m.tzs = <<"Z">>
    THEN [ok |-> TRUE, dt |-> [naive EXCEPT !.tzinfo = <<0>>],
          frac |-> m.frac, tzs |-> m.tzs]
    ELSE
    LET sign  == IF m.tzs[1] = "+" THEN 1 ELSE -1
        off_h == IntOf(SubSeq(m.tzs, 2, 3))
        off_m == IntOf(SubSeq(m.tzs, 5, 6))
        off   == sign * (60 * off_h + off_m)
    IN
    IF ~ (off > -1440 /\ off < 1440)
    THEN Raise("ValueError", <<"offset must be a timedelta strictly between">>)
    ELSE [ok |-> TRUE, dt |-> [naive EXCEPT !.tzinfo = <<off>>],
          frac |-> m.frac, tzs |-> m.tzs]

\* datetime(y, mo, d, hh, mm, ss) of the int() of the groups
parse_datetime(m, y, mo, d, hh, mm, ss) ==
    IF ~ ValidDateTime(y, mo, d, hh, mm, ss)
    THEN Raise("ValueError", <<"datetime field out of range">>)
    ELSE parse_zone(m, [year |-> y, month |-> mo, day |-> d,
                        hour |-> hh, minute |-> mm, second |-> ss,
                        tzinfo |-> <<>>])

\* after DT_RE.match returned m
parse_matched(s, m) ==
    IF ~ m.ok
    THEN Raise("ValueError", <<"Unsupported datetime format: ">> \o s)
    ELSE parse_datetime(m, IntOf(m.y), IntOf(m.mo), IntOf(m.d),
                        IntOf(m.hh), IntOf(m.mm), IntOf(m.ss))

\* parse_exif_dt: (dt, frac, tzs), or the exception raised.
\* dt.tzinfo is <<>> for a naive datetime and <<minutes>> for an aware one.
parse_exif_dt(s) == parse_matched(s, DT_RE_match(strip(s)))

\* dt.strftime("%Y:%m:%d %H:%M:%S").  %m %d %H %M %S are two digits wide;
\* the width of %Y for years below 1000 is the C library's: four digits
\* where it pads, the bare number where it does not.
strftime(dt) ==
    LET yr == IF libc = "pads_year"
              THEN ZeroPad(Decimal(dt.year), 4)
              ELSE Decimal(dt.year)
    IN yr \o <<":">> \o ZeroPad(Decimal(dt.month), 2)
          \o <<":">> \o ZeroPad(Decimal(dt.day), 2)
          \o <<" ">> \o ZeroPad(Decimal(dt.hour), 2)
          \o <<":">> \o ZeroPad(Decimal(dt.minute), 2)
          \o <<":">> \o ZeroPad(Decimal(dt.second), 2)

\* fmt_exif_dt: wall clock text, then the fraction, then the suffix
fmt_exif_dt(dt, frac, tz_suffix) ==
    LET s1 == strftime(dt)
        s2 == IF frac # <<>> THEN s1 \o frac ELSE s1
    IN IF tz_suffix # <<>> THEN s2 \o tz_suffix ELSE s2

\* dt + timedelta(days = n), one calendar day at a time
RECURSIVE AddDays(_, _)
AddDays(dt, n) ==
    IF n = 0 THEN dt
    ELSE IF n > 0 THEN
        IF dt.day < DaysInMonth(dt.year, dt.month)
        THEN AddDays([dt EXCEPT !.day = dt.day + 1], n - 1)
        ELSE IF dt.month < 12
        THEN AddDays([dt EXCEPT !.day = 1, !.month = dt.month + 1], n - 1)
        ELSE AddDays([dt EXCEPT !.day = 1, !.month = 1,
                                !.year = dt.year + 1], n - 1)
    ELSE
        IF dt.day > 1
        THEN AddDays([dt EXCEPT !.day = dt.day - 1], n + 1)
        ELSE IF dt.month > 1
        THEN AddDays([dt EXCEPT !.month = dt.month - 1,
                                !.day = DaysInMonth(dt.year, dt.month - 1)],
                     n + 1)
        ELSE AddDays([dt EXCEPT !.year = dt.year - 1, !.month = 12,
                                !.day = 31], n + 1)

\* floor division for a possibly negative dividend
FloorDiv(a, b) == IF a >= 0 THEN a \div b ELSE -((-a + b - 1) \div b)

\* dt + timedelta(hours = h) for whole hours h; ok = FALSE on OverflowError
AddHours(dt, h) ==
    LET total == dt.hour + h
        days  == FloorDiv(total, 24)
        hour  == total - 24 * days
        moved == AddDays([dt EXCEPT !.hour = hour], days)
    IN IF moved.year \in 1..9999
       THEN [ok |-> TRUE, dt |-> moved]
       ELSE Raise("OverflowError", <<"date value out of range">>)

\* ^[+-]\d{2}:\d{2}$
IsOffsetText(so) ==
    /\ Len(so) = 6
    /\ so[1] \in {"+", "-"}
    /\ AllDigits(so, 2, 3)
    /\ so[4] = ":"
    /\ AllDigits(so, 5, 6)

\* the offset override: so is set_offset stripped and upper-cased
apply_offset(dt, frac, set_offset, so) ==
    IF so # <<"Z">> /\ ~ IsOffsetText(so)
    THEN Raise("ValueError",
               <<"Invalid --set-offset '">> \o set_offset
                  \o <<"' (use 'Z' or +-HH:MM)">>)
    ELSE [ok |-> TRUE, s |-> fmt_exif_dt(dt, frac, so)]

\* after the shift gave sh (the shifted datetime, or OverflowError)
apply_shifted(p, sh, set_offset) ==
    IF ~ sh.ok THEN sh
    ELSE IF set_offset # <<>>
    THEN apply_offset(sh.dt, p.frac, set_offset, upper(strip(set_offset)))
    ELSE [ok |-> TRUE, s |-> fmt_exif_dt(sh.dt, p.frac, p.tzs)]

\* after parse_exif_dt returned or raised p
apply_parsed(p, shift_hours, set_offset) ==
    IF ~ p.ok THEN p
    ELSE apply_shifted(p,
                       IF shift_hours # 0 THEN AddHours(p.dt, shift_hours)
                       ELSE [ok |-> TRUE, dt |-> p.dt],
                       set_offset)

\* apply_time_adjustments: the adjusted text, or the exception raised
apply_time_adjustments(value, shift_hours, set_offset) ==
    apply_parsed(parse_exif_dt(value), shift_hours, set_offset)

----------------------------------------------------------------------------
(* Paths and media kinds                                                   *)

\* A path is [stem, ext]: Path.stem and Path.suffix of its file name.

\* str.lower() on the file-name atoms of the model
lower(x) ==
    CASE x = "IMG_001"  -> "img_001"
      [] x = ".IMG_001" -> ".img_001"
      [] x = "Notes"    -> "notes"
      [] x = ".MOV"     -> ".mov"
      [] x = ".MP4"     -> ".mp4"
      [] x = ".JPG"     -> ".jpg"
      [] OTHER          -> x

\* name.startswith(".") on the stems of the model
StartsWithDot(stem) == stem \in {".IMG_001", ".img_001"}

VIDEO_EXTS ==
    {".mp4", ".mov", ".m4v", ".3gp", ".3g2", ".avi", ".mts", ".m2ts", ".wmv"}

PHOTO_EXTS ==
    {".jpg", ".jpeg", ".heic", ".heif", ".png", ".tif", ".tiff", ".webp",
     ".dng", ".cr2", ".nef", ".arw", ".rw2"}

is_hidden(p) == StartsWithDot(p.stem)

is_video(p) == lower(p.ext) \in VIDEO_EXTS

is_photo(p) == lower(p.ext) \in PHOTO_EXTS

----------------------------------------------------------------------------
(* Tag selector                                                            *)

VIDEO_TAG_PRIORITY ==
    << "QuickTime:CreationDate", "ItemList:ContentCreateDate",
       "Keys:CreationDate", "EXIF:CreateDate", "EXIF:DateTimeOriginal",
       "QuickTime:CreateDate", "QuickTime:MediaCreateDate",
       "QuickTime:TrackCreateDate", "H264:DateTimeOriginal",
       "XMP:CreateDate", "XMP:DateCreated" >>

PHOTO_TAG_PRIORITY ==
    << "EXIF:DateTimeOriginal", "EXIF:CreateDate", "XMP:CreateDate",
       "XMP:DateCreated", "QuickTime:CreationDate", "PNG:CreationTime" >>

\* A tag set is the JSON object exiftool printed: a sequence of
\* <<name, value>> pairs with distinct names, in the order of the object.
HasTag(tags, tag) == \E i \in 1..Len(tags) : tags[i][1] = tag

TagValue(tags, tag) ==
    tags[CHOOSE i \in 1..Len(tags) : tags[i][1] = tag][2]

\* k.endswith("CreateDate") or k.endswith("DateTimeOriginal") on tag names
EndsWithDateName(k) ==
    k \in { "EXIF:CreateDate", "QuickTime:CreateDate",
            "QuickTime:MediaCreateDate", "QuickTime:TrackCreateDate",
            "XMP:CreateDate", "ItemList:ContentCreateDate",
            "EXIF:DateTimeOriginal", "H264:DateTimeOriginal",
            "Custom:DateTimeOriginal" }

\* the candidates loop: present, non-blank entries of base, in base order
RECURSIVE Candidates(_, _)
Candidates(tags, base) ==
    IF base = <<>> THEN <<>>
    ELSE LET tag == Head(base) IN
         IF HasTag(tags, tag) /\ strip(TagValue(tags, tag)) # <<>>
         THEN <<<<tag, strip(TagValue(tags, tag))>>>>
                 \o Candidates(tags, Tail(base))
         ELSE Candidates(tags, Tail(base))

\* first element of a sequence of pairs that satisfies the zone test
RECURSIVE FirstWithZone(_)
FirstWithZone(cands) ==
    IF cands = <<>> THEN <<>>
    ELSE IF TZ_RE_search(Head(cands)[2]) THEN Head(cands)
    ELSE FirstWithZone(Tail(cands))

\* last resort: first entry of the whole tag set with a date-like name
RECURSIVE ScanAll(_)
ScanAll(tags) ==
    IF tags = <<>> THEN <<>>
    ELSE IF EndsWithDateName(Head(tags)[1]) /\ strip(Head(tags)[2]) # <<>>
    THEN <<Head(tags)[1], strip(Head(tags)[2])>>
    ELSE ScanAll(Tail(tags))

\* a selector without the timezone preference: first candidate wins
pick_first_candidate(tags, path) ==
    LET base == (IF is_video(path) THEN VIDEO_TAG_PRIORITY
                 ELSE IF is_photo(path) THEN PHOTO_TAG_PRIORITY
                 ELSE VIDEO_TAG_PRIORITY \o PHOTO_TAG_PRIORITY)
                \o <<"System:FileModifyDate">>
        candidates == Candidates(tags, base)
    IN IF candidates # <<>> THEN candidates[1] ELSE ScanAll(tags)

\* pick_best_time_tag: <<tag, value>>, or <<>> for None
pick_best_time_tag(tags, path) ==
    LET base == (IF is_video(path) THEN VIDEO_TAG_PRIORITY
                 ELSE IF is_photo(path) THEN PHOTO_TAG_PRIORITY
                 ELSE VIDEO_TAG_PRIORITY \o PHOTO_TAG_PRIORITY)
                \o <<"System:FileModifyDate">>
        candidates == Candidates(tags, base)
        zoned == FirstWithZone(candidates)
    IN IF zoned # <<>> THEN zoned
       ELSE IF candidates # <<>> THEN candidates[1]
       ELSE ScanAll(tags)

----------------------------------------------------------------------------
(* The external tool                                                       *)

\* Every exiftool invocation of one per-file operation is a site.  An
\* oracle o maps each site to TRUE (exit status 0) or FALSE (non-zero exit,
\* subprocess.CalledProcessError); the captured output of a site is its own
\* text, so that outputs of different invocations can be told apart.
Sites ==
    {"copy_meta", "copy_fs", "copy_fs_retry", "set_meta", "set_fs",
     "set_fs_retry"}

Oracles == [Sites -> BOOLEAN]

\* captured stdout+stderr of a successful invocation (not yet stripped)
OkOutput(site) == <<" ", " ", " ", " ", "1 image files updated", "\n">>

\* captured stdout+stderr of an invocation that exited non-zero
ErrOutput(site) == <<"Error: ", site, " refused", "\n">>

NoPath == [stem |-> "", ext |-> ""]

\* one exiftool invocation as recorded in a trace: the event, the file
\* named last on the command line, the -TagsFromFile argument (NoPath when
\* absent), the assignment arguments and whether it exited with status 0
Invocation(ev, file, from, assigns, ok) ==
    [ev |-> ev, file |-> file, from |-> from, assigns |-> assigns, ok |-> ok]

\* a step of the code that starts no process, recorded in a trace
Step(ev, file, ok) ==
    [ev |-> ev, file |-> file, from |-> NoPath, assigns |-> <<>>, ok |-> ok]

\* "-Field=value" for every field of a list
Assign(fields, value) == [i \in 1..Len(fields) |-> <<fields[i], value>>]

----------------------------------------------------------------------------
(* Writers                                                                 *)

PhotoWriteFields == <<"DateTimeOriginal", "CreateDate", "ModifyDate">>

VideoWriteFields ==
    << "QuickTime:CreateDate", "QuickTime:ModifyDate", "MediaCreateDate",
       "TrackCreateDate", "TrackModifyDate", "ModifyDate",
       "ItemList:ContentCreateDate", "Keys:CreationDate" >>

\* a metadata writer whose video field list lacks Keys:CreationDate
set_metadata_dates_short_list(path, value, o) ==
    LET fields == IF is_photo(path) THEN PhotoWriteFields
                  ELSE SubSeq(VideoWriteFields, 1, Len(VideoWriteFields) - 1)
        inv == Invocation("set_meta", path, NoPath, Assign(fields, value),
                          o["set_meta"])
    IN IF o["set_meta"]
       THEN [ok |-> TRUE,  msg |-> strip(OkOutput("set_meta")),
             trace |-> <<inv>>]
       ELSE [ok |-> FALSE, msg |-> ErrOutput("set_meta"),
             trace |-> <<inv>>]

\* set_metadata_dates_from_value: (ok, msg) and the invocations made
set_metadata_dates_from_value(path, value, o) ==
    LET fields == IF is_photo(path) THEN PhotoWriteFields
                  ELSE VideoWriteFields
        inv == Invocation("set_meta", path, NoPath, Assign(fields, value),
                          o["set_meta"])
    IN IF o["set_meta"]
       THEN [ok |-> TRUE,  msg |-> strip(OkOutput("set_meta")),
             trace |-> <<inv>>]
       ELSE [ok |-> FALSE, msg |-> ErrOutput("set_meta"),
             trace |-> <<inv>>]

\* a filesystem writer that gives up after the first attempt
set_filesystem_dates_without_retry(path, value, o) ==
    LET first == Invocation("set_fs", path, NoPath,
                            Assign(<<"FileCreateDate", "FileModifyDate">>,
                                   value),
                            o["set_fs"])
    IN IF o["set_fs"]
       THEN [ok |-> TRUE, msg |-> strip(OkOutput("set_fs")),
             trace |-> <<first>>]
       ELSE [ok |-> FALSE, msg |-> ErrOutput("set_fs"), trace |-> <<first>>]

\* set_filesystem_dates_from_value: create+modify, then modify alone
set_filesystem_dates_from_value(path, value, o) ==
    LET first == Invocation("set_fs", path, NoPath,
                            Assign(<<"FileCreateDate", "FileModifyDate">>,
                                   value),
                            o["set_fs"])
        retry == Invocation("set_fs_retry", path, NoPath,
                            Assign(<<"FileModifyDate">>, value),
                            o["set_fs_retry"])
    IN IF o["set_fs"]
       THEN [ok |-> TRUE, msg |-> strip(OkOutput("set_fs")),
             trace |-> <<first>>]
       ELSE IF o["set_fs_retry"]
       THEN [ok |-> TRUE,
             msg |-> <<"(create date unsupported) ">>
                        \o strip(OkOutput("set_fs_retry")),
             trace |-> <<first, retry>>]
       ELSE [ok |-> FALSE,
             msg |-> ErrOutput("set_fs") \o <<"\n">>
                        \o ErrOutput("set_fs_retry"),
             trace |-> <<first, retry>>]

----------------------------------------------------------------------------
(* Restore from own metadata                                               *)

\* What exiftool_json can do: return the tag object, exit non-zero
\* (CalledProcessError carrying the output), or print something json.loads
\* rejects (a ValueError).
QueryOk(tags) == [kind |-> "ok", tags |-> tags]

QueryNonZero ==
    [kind |-> "nonzero", tags |-> <<>>]

QueryBadJson ==
    [kind |-> "badjson", tags |-> <<>>]

QueryOutput == <<"Error: ", "query", " refused", "\n">>

\* str(e) of the exceptions a query can raise
QueryExcText(q) ==
    IF q.kind = "nonzero"
    THEN <<"Command '['exiftool', ...]' returned non-zero exit status 1.">>
    ELSE <<"Expecting value: line 1 column 1 (char 0)">>

\* the value a per-file operation hands back to main
Result(path, ok, msg, trace) ==
    [path |-> path, raised |-> FALSE, ok |-> ok, msg |-> msg,
     trace |-> trace]

\* an exception that leaves the per-file operation
Escaped(path, text, trace) ==
    [path |-> path, raised |-> TRUE, ok |-> FALSE, msg |-> text,
     trace |-> trace]

\* a restore that goes on to the filesystem write after a failed metadata
\* write and reports failure if either write failed
restore_writing_both(path, shift_hours, set_offset, q, o) ==
    LET t1 == <<Step("query", path, q.kind = "ok")>> IN
    IF q.kind = "nonzero"
    THEN Result(path, FALSE, <<"ExifTool error: ">> \o QueryOutput, t1)
    ELSE IF q.kind = "badjson"
    THEN Result(path, FALSE, <<"Error: ">> \o QueryExcText(q), t1)
    ELSE
    LET picked == pick_best_time_tag(q.tags, path)
        t2     == t1 \o <<Step("select", path, picked # <<>>)>>
    IN
    IF picked = <<>>
    THEN Result(path, FALSE, <<"No usable time tag found">>, t2)
    ELSE
    LET src_tag == picked[1]
        value   == picked[2]
        adj     == apply_time_adjustments(value, shift_hours, set_offset)
        t3      == t2 \o <<Step("adjust", path, adj.ok)>>
    IN
    IF ~ adj.ok
    THEN Result(path, FALSE, <<"Error: ">> \o adj.msg, t3)
    ELSE
    LET w1 == set_metadata_dates_from_value(path, adj.s, o)
        w2 == set_filesystem_dates_from_value(path, adj.s, o)
        t5 == t3 \o w1.trace \o w2.trace
    IN
    IF ~ w1.ok
    THEN Result(path, FALSE,
                <<"Set metadata failed from ", src_tag, "=">> \o value
                   \o <<" -> ">> \o adj.s \o <<": ">> \o w1.msg,
                t5)
    ELSE IF ~ w2.ok
    THEN Result(path, FALSE,
                <<"Metadata OK, filesystem FAILED: ">> \o w2.msg, t5)
    ELSE Result(path, TRUE,
                <<"Set metadata+filesystem from ", src_tag, " = ">>
                   \o value \o <<" -> ">> \o adj.s,
                t5)

\* restore_from_own_metadata is modelled stage by stage: each stage is
\* handed what the stages before it computed, and the events so far.

\* the end of restore_from_own_metadata: w2 is what the filesystem write
\* returned
restore_after_fs_write(path, src_tag, value, adjusted, w2, t) ==
    IF ~ w2.ok
    THEN Result(path, FALSE,
                <<"Metadata OK, filesystem FAILED: ">> \o w2.msg,
                t \o w2.trace)
    ELSE Result(path, TRUE,
                <<"Set metadata+filesystem from ", src_tag, " = ">>
                   \o value \o <<" -> ">> \o adjusted,
                t \o w2.trace)

\* after the metadata write returned w1: give up, or write the filesystem
\* dates
restore_after_metadata_write(path, src_tag, value, adjusted, w1, o, t) ==
    IF ~ w1.ok
    THEN Result(path, FALSE,
                <<"Set metadata failed from ", src_tag, "=">> \o value
                   \o <<" -> ">> \o adjusted \o <<": ">> \o w1.msg,
                t \o w1.trace)
    ELSE restore_after_fs_write(
             path, src_tag, value, adjusted,
             set_filesystem_dates_from_value(path, adjusted, o),
             t \o w1.trace)

\* after apply_time_adjustments returned or raised adj: the except
\* Exception branch, or the metadata write
restore_after_adjust(path, src_tag, value, adj, o, t) ==
    IF ~ adj.ok
    THEN Result(path, FALSE, <<"Error: ">> \o adj.msg,
                t \o <<Step("adjust", path, FALSE)>>)
    ELSE restore_after_metadata_write(
             path, src_tag, value, adj.s,
             set_metadata_dates_from_value(path, adj.s, o), o,
             t \o <<Step("adjust", path, TRUE)>>)

\* after pick_best_time_tag returned picked: nothing usable, or adjust
restore_after_select(path, shift_hours, set_offset, picked, o, t) ==
    IF picked = <<>>
    THEN Result(path, FALSE, <<"No usable time tag found">>,
                t \o <<Step("select", path, FALSE)>>)
    ELSE restore_after_adjust(
             path, picked[1], picked[2],
             apply_time_adjustments(picked[2], shift_hours, set_offset), o,
             t \o <<Step("select", path, TRUE)>>)

\* restore_from_own_metadata with query outcome q and tool oracle o
restore_from_own_metadata(path, shift_hours, set_offset, q, o) ==
    IF q.kind = "nonzero"
    THEN Result(path, FALSE, <<"ExifTool error: ">> \o QueryOutput,
                <<Step("query", path, FALSE)>>)
    ELSE IF q.kind = "badjson"
    THEN Result(path, FALSE, <<"Error: ">> \o QueryExcText(q),
                <<Step("query", path, FALSE)>>)
    ELSE restore_after_select(path, shift_hours, set_offset,
                              pick_best_time_tag(q.tags, path), o,
                              <<Step("query", path, TRUE)>>)

----------------------------------------------------------------------------
(* Sync from source                                                        *)

MetadataCopyFields ==
    << <<"QuickTime:CreateDate", "QuickTime:CreateDate">>,
       <<"QuickTime:ModifyDate", "QuickTime:ModifyDate">>,
       <<"MediaCreateDate", "MediaCreateDate">>,
       <<"TrackCreateDate", "TrackCreateDate">>,
       <<"TrackModifyDate", "TrackModifyDate">>,
       <<"EXIF:CreateDate", "CreateDate">>,
       <<"EXIF:DateTimeOriginal", "DateTimeOriginal">>,
       <<"EXIF:ModifyDate", "ModifyDate">>,
       <<"ItemList:ContentCreateDate", "ItemList:ContentCreateDate">>,
       <<"Keys:CreationDate", "Keys:CreationDate">>,
       <<"UserData:CreationDate", "UserData:CreationDate">> >>

\* sync_copy_metadata_from_src: one -TagsFromFile invocation
sync_copy_metadata_from_src(src, dst, o) ==
    LET inv == Invocation("copy_meta", dst, src, MetadataCopyFields,
                          o["copy_meta"])
    IN IF o["copy_meta"]
       THEN [ok |-> TRUE,  msg |-> strip(OkOutput("copy_meta")),
             trace |-> <<inv>>]
       ELSE [ok |-> FALSE, msg |-> ErrOutput("copy_meta"),
             trace |-> <<inv>>]

\* sync_copy_filesystem_dates_from_src: create+modify, then modify alone
sync_copy_filesystem_dates_from_src(src, dst, o) ==
    LET first == Invocation("copy_fs", dst, src,
                            << <<"FileCreateDate", "FileCreateDate">>,
                               <<"FileModifyDate", "FileModifyDate">> >>,
                            o["copy_fs"])
        retry == Invocation("copy_fs_retry", dst, src,
                            << <<"FileModifyDate", "FileModifyDate">> >>,
                            o["copy_fs_retry"])
    IN IF o["copy_fs"]
       THEN [ok |-> TRUE, msg |-> strip(OkOutput("copy_fs")),
             trace |-> <<first>>]
       ELSE IF o["copy_fs_retry"]
       THEN [ok |-> TRUE,
             msg |-> <<"(create date unsupported) ">>
                        \o strip(OkOutput("copy_fs_retry")),
             trace |-> <<first, retry>>]
       ELSE [ok |-> FALSE,
             msg |-> ErrOutput("copy_fs") \o <<"\n">>
                        \o ErrOutput("copy_fs_retry"),
             trace |-> <<first, retry>>]

\* the condition under which sync_from_source adjusts after the copy
AdjustmentRequested(shift_hours, set_offset) ==
    shift_hours # 0 \/ set_offset # <<>>

\* a sync that takes the timestamp to adjust from the source file
sync_adjusting_from_source(src, dst, shift_hours, set_offset, q, o) ==
    LET c1 == sync_copy_metadata_from_src(src, dst, o) IN
    IF ~ c1.ok
    THEN Result(dst, FALSE, <<"Copy metadata failed: ">> \o c1.msg, c1.trace)
    ELSE
    LET c2 == sync_copy_filesystem_dates_from_src(src, dst, o)
        t2 == c1.trace \o c2.trace
    IN
    IF ~ c2.ok
    THEN Result(dst, FALSE, <<"Copy filesystem dates failed: ">> \o c2.msg,
                t2)
    ELSE IF ~ AdjustmentRequested(shift_hours, set_offset)
    THEN Result(dst, TRUE, <<"Synced metadata + filesystem (exact copy)">>,
                t2)
    ELSE
    LET t3 == t2 \o <<Step("query", src, q.kind = "ok")>> IN
    IF q.kind # "ok"
    THEN Escaped(dst, QueryExcText(q), t3)
    ELSE
    LET picked == pick_best_time_tag(q.tags, src)
        t4     == t3 \o <<Step("select", src, picked # <<>>)>>
    IN
    IF picked = <<>>
    THEN Result(dst, FALSE,
                <<"Post-sync shift requested but no usable time tag found">>,
                t4)
    ELSE
    LET value == picked[2]
        adj   == apply_time_adjustments(value, shift_hours, set_offset)
        t5    == t4 \o <<Step("adjust", dst, adj.ok)>>
    IN
    IF ~ adj.ok
    THEN Escaped(dst, adj.msg, t5)
    ELSE
    LET wm == set_metadata_dates_from_value(dst, adj.s, o)
        wf == set_filesystem_dates_from_value(dst, adj.s, o)
        t6 == t5 \o wm.trace \o wf.trace
    IN
    IF ~ (wm.ok /\ wf.ok)
    THEN Result(dst, FALSE, <<"Post-sync shift failed to apply">>, t6)
    ELSE Result(dst, TRUE, <<"Synced then shifted -> ">> \o adj.s, t6)

\* sync_from_source is modelled stage by stage, like the restore.

\* the end of sync_from_source: wm and wf are what the two post-sync
\* writes returned; their messages are dropped
sync_after_writes(dst, adjusted, wm, wf, t) ==
    IF ~ (wm.ok /\ wf.ok)
    THEN Result(dst, FALSE, <<"Post-sync shift failed to apply">>,
                t \o wm.trace \o wf.trace)
    ELSE Result(dst, TRUE, <<"Synced then shifted -> ">> \o adjusted,
                t \o wm.trace \o wf.trace)

\* after apply_time_adjustments returned or raised adj: an exception
\* leaves the function; otherwise both writes are made, the filesystem
\* write whatever the metadata write returned
sync_after_adjust(dst, adj, o, t) ==
    IF ~ adj.ok
    THEN Escaped(dst, adj.msg, t \o <<Step("adjust", dst, FALSE)>>)
    ELSE sync_after_writes(
             dst, adj.s,
             set_metadata_dates_from_value(dst, adj.s, o),
             set_filesystem_dates_from_value(dst, adj.s, o),
             t \o <<Step("adjust", dst, TRUE)>>)

\* after pick_best_time_tag on the re-read tags returned picked
sync_after_select(dst, shift_hours, set_offset, picked, o, t) ==
    IF picked = <<>>
    THEN Result(dst, FALSE,
                <<"Post-sync shift requested but no usable time tag found">>,
                t \o <<Step("select", dst, FALSE)>>)
    ELSE sync_after_adjust(
             dst, apply_time_adjustments(picked[2], shift_hours, set_offset),
             o, t \o <<Step("select", dst, TRUE)>>)

\* after the filesystem-date copy returned c2: failure, the exact copy, or
\* the re-read of dst, whose exceptions leave the function
sync_after_fs_copy(dst, shift_hours, set_offset, c2, q, o, t) ==
    IF ~ c2.ok
    THEN Result(dst, FALSE, <<"Copy filesystem dates failed: ">> \o c2.msg,
                t \o c2.trace)
    ELSE IF ~ AdjustmentRequested(shift_hours, set_offset)
    THEN Result(dst, TRUE, <<"Synced metadata + filesystem (exact copy)">>,
                t \o c2.trace)
    ELSE IF q.kind # "ok"
    THEN Escaped(dst, QueryExcText(q),
                 t \o c2.trace \o <<Step("query", dst, FALSE)>>)
    ELSE sync_after_select(dst, shift_hours, set_offset,
                           pick_best_time_tag(q.tags, dst), o,
                           t \o c2.trace \o <<Step("query", dst, TRUE)>>)

\* after the metadata copy returned c1
sync_after_metadata_copy(src, dst, shift_hours, set_offset, c1, q, o) ==
    IF ~ c1.ok
    THEN Result(dst, FALSE, <<"Copy metadata failed: ">> \o c1.msg, c1.trace)
    ELSE sync_after_fs_copy(
             dst, shift_hours, set_offset,
             sync_copy_filesystem_dates_from_src(src, dst, o), q, o,
             c1.trace)

\* sync_from_source with query outcome q (for the re-read of dst) and tool
\* oracle o; an exception of the re-read or of the adjustment is not caught
\* here and leaves the function
sync_from_source(src, dst, shift_hours, set_offset, q, o) ==
    sync_after_metadata_copy(src, dst, shift_hours, set_offset,
                             sync_copy_metadata_from_src(src, dst, o), q, o)

----------------------------------------------------------------------------
(* Source index                                                            *)

\* The index is a dict of dicts of lists; both dicts keep insertion order.
\* It is modelled as a sequence of <<key, entries>> pairs, entries being a
\* sequence of <<ext, paths>> pairs.
HasKey(d, k) == \E i \in 1..Len(d) : d[i][1] = k

Lookup(d, k) == d[CHOOSE i \in 1..Len(d) : d[i][1] = k][2]

\* d[k] = v, appending the key when it is new to d
Store(d, k, v) ==
    IF HasKey(d, k)
    THEN [i \in 1..Len(d) |-> IF d[i][1] = k THEN <<k, v>> ELSE d[i]]
    ELSE Append(d, <<k, v>>)

\* index[stem][ext].append(p) on the defaultdict of defaultdicts
IndexAppend(index, stem, ext, p) ==
    LET entries == IF HasKey(index, stem) THEN Lookup(index, stem) ELSE <<>>
        paths   == IF HasKey(entries, ext) THEN Lookup(entries, ext)
                   ELSE <<>>
    IN Store(index, stem, Store(entries, ext, Append(paths, p)))

\* build_source_index over the files the folder traversal yields
RECURSIVE build_source_index(_, _)
build_source_index(listing, case_insensitive) ==
    IF listing = <<>> THEN <<>>
    ELSE LET p    == listing[Len(listing)]
             rest == build_source_index(SubSeq(listing, 1, Len(listing) - 1),
                                        case_insensitive)
             stem == IF case_insensitive THEN lower(p.stem) ELSE p.stem
         IN IF ~ is_hidden(p)
            THEN IndexAppend(rest, stem, lower(p.ext), p)
            ELSE rest

\* a lookup that takes the first file of the stem, whatever its extension
find_source_match_first_of_stem(index, target, case_insensitive) ==
    LET key == IF case_insensitive THEN lower(target.stem) ELSE target.stem
    IN IF HasKey(index, key)
       THEN Lookup(index, key)[1][2][1]
       ELSE NoPath

\* find_source_match: the matched source path, or NoPath for None
find_source_match(index, target, case_insensitive) ==
    LET key == IF case_insensitive THEN lower(target.stem) ELSE target.stem
        ext == lower(target.ext)
    IN IF HasKey(index, key) /\ HasKey(Lookup(index, key), ext)
       THEN Lookup(Lookup(index, key), ext)[1]
       ELSE IF HasKey(index, key)
       THEN Lookup(index, key)[1][2][1]
       ELSE NoPath

----------------------------------------------------------------------------
(* Inputs of the function-level specifications                             *)

DateTexts ==
    { <<"2","0","2","4",":","0","1",":","1","5">>,
      <<"2","0","2","2",":","1","2",":","3","1">>,
      <<"0","9","9","9",":","0","3",":","0","1">>,
      <<"2","0","2","3",":","0","2",":","2","9">> }    \* no such day

GapTexts == { <<" ">>, <<" ", " ">>, <<"\t">> }

ClockTexts ==
    { <<"1","0",":","0","0",":","0","0">>,
      <<"2","3",":","3","0",":","5","9">>,
      <<"0","1",":","0","0",":","6","0">> }            \* no such second

FracTexts == { <<>>, <<".","5">>, <<".","0","5","0">> }

ZoneTexts ==
    { <<>>, <<"Z">>,
      <<"+","0","2",":","0","0">>,
      <<"-","0","5",":","3","0">>,
      <<"+","2","4",":","0","0">> }                    \* outside (-24h, 24h)

\* --set-offset arguments: absent, valid ones, lower case, padded, malformed
OffsetArgs ==
    { <<>>, <<"Z">>, <<"z">>,
      <<"+","0","7",":","0","0">>,
      <<"-","0","3",":","3","0">>,
      <<" ","+","0","7",":","0","0">>,
      <<"+","7",":","0","0">> }

ShiftArgs == {0, 7, -5}

NaiveValue ==
    <<"2","0","2","3",":","0","1",":","0","1"," ","0","0",":","0","0",":","0","0">>

ZonedValue ==
    <<"2","0","2","3",":","0","1",":","0","1"," ","0","8",":","0","0",":","0","0",
      "+","0","8",":","0","0">>

UtcValue ==
    <<"2","0","2","3",":","0","1",":","0","1"," ","0","0",":","0","0",":","0","0","Z">>

\* exitcode while the process is still running
NoExit == -1

NoRet == [ok |-> FALSE, exc |-> "pending", msg |-> <<>>]

Returned == ret # NoRet

IdleRun ==
    /\ pc = "idle"
    /\ args = <<>>
    /\ env = <<>>
    /\ targets = <<>>
    /\ src_index = <<>>
    /\ idx = 0
    /\ processed = 0
    /\ succeeded = 0
    /\ failed = 0
    /\ exitcode = NoExit
    /\ last = <<>>

Platforms == {"pads_year", "bare_year"}

----------------------------------------------------------------------------
(* Inputs of the runs of main()                                            *)

MaxTargets == 2

TargetUniverse ==
    { [stem |-> "img_001", ext |-> ".mp4"],
      [stem |-> "IMG_001", ext |-> ".JPG"],
      [stem |-> "Notes",   ext |-> ".txt"] }

\* what the traversal of the source folder can yield, in its order: no
\* file, one file, two files of the same stem (ignoring case) in either
\* order, and hidden files
SourceListings ==
    LET mov    == [stem |-> "IMG_001",  ext |-> ".MOV"]
        mp4    == [stem |-> "img_001",  ext |-> ".MP4"]
        hidden == [stem |-> ".IMG_001", ext |-> ".MOV"]
    IN { <<>>, <<mov>>, <<mov, mp4>>, <<mp4, mov>>, <<hidden>>,
         <<hidden, mp4>> }

\* directory listings: sequences of distinct paths of bounded length
Listings(U, n) ==
    UNION { { q \in [1..k -> U] : \A i, j \in 1..k : i # j => q[i] # q[j] } :
            k \in 0..n }

\* what a query of a file can return in a run
RunTagSets ==
    { <<>>,
      << <<"QuickTime:CreateDate",
           <<"2","0","2","2",":","0","7",":","0","4"," ",
             "1","5",":","3","0",":","0","0">> >> >>,
      << <<"EXIF:CreateDate", NaiveValue>>, <<"XMP:CreateDate", ZonedValue>> >>,
      << <<"EXIF:CreateDate",
           <<"0","0","0","0",":","0","0",":","0","0"," ",
             "0","0",":","0","0",":","0","0">> >> >> }

QueryOutcomes ==
    {QueryNonZero, QueryBadJson} \cup {QueryOk(t) : t \in RunTagSets}

RunShifts == {0, -5}

RunOffsets == { <<>>, <<"Z">>, <<"+","7",":","0","0">> }

\* Command lines of the runs: a shift or an offset override or neither.
\* A field the run never reads in its mode keeps one fixed value.
RunArgs ==
    { a \in [file : BOOLEAN, sync_from : BOOLEAN, shift_hours : RunShifts,
             set_offset : RunOffsets, case_insensitive : BOOLEAN] :
        /\ a.shift_hours # 0 => a.set_offset = <<>>
        /\ (~ a.sync_from \/ a.file) => a.case_insensitive }

\* Machines of the runs.  What the run never looks at keeps one fixed
\* value: nothing is listed in a folder that does not exist, a source is
\* only looked at in sync mode, and a source folder only with --folder.
RunEnvs(a) ==
    { e \in [exiftool : BOOLEAN, folder_ok : BOOLEAN,
             found : Listings(TargetUniverse, MaxTargets),
             src_kind : {"missing", "file", "dir"},
             src_listing : SourceListings] :
        /\ a.file => e.folder_ok
        /\ ~ e.folder_ok => e.found = <<>>
        /\ ~ a.sync_from => e.src_kind = "missing"
        /\ (a.file \/ e.src_kind # "dir") => e.src_listing = <<>>
        /\ ~ e.exiftool =>
              e.folder_ok /\ e.found = <<>> /\ e.src_kind = "missing" }

----------------------------------------------------------------------------
(* main()                                                                  *)

\* `last' before the first loop iteration
NoOutcome ==
    [path |-> NoPath, raised |-> FALSE, ok |-> FALSE, msg |-> <<>>,
     trace |-> <<>>, mode |-> "none", src |-> NoPath]

\* what one loop iteration leaves behind: the operation's result, the
\* branch of the loop body that ran, and the source used (NoPath if none)
Outcome(r, mode, src) ==
    [path |-> r.path, raised |-> r.raised, ok |-> r.ok, msg |-> r.msg,
     trace |-> r.trace, mode |-> mode, src |-> src]

\* the source file of a single-file sync (Path(args.sync_from))
SyncSourceFile == [stem |-> "IMG_001", ext |-> ".MOV"]

\* sys.exit(code)
Exit(code) ==
    /\ exitcode' = code
    /\ pc' = "exited"

\* ensure_exiftool(): exit 1 when the tool is not on the PATH
EnsureExiftool ==
    /\ pc = "start"
    /\ IF ~ env.exiftool
       THEN Exit(1)
       ELSE pc' = "targets" /\ UNCHANGED exitcode
    /\ UNCHANGED <<libc, call, ret, args, env, targets, src_index, idx,
                   processed, succeeded, failed, last>>

\* target enumeration: --file through expand_file_argument, --folder through
\* the folder check and iter_folder; then the "Nothing to do" return
ResolveTargets ==
    /\ pc = "targets"
    /\ IF args.file
       THEN IF env.found = <<>>
            THEN Exit(2) /\ UNCHANGED targets
            ELSE /\ targets' = env.found
                 /\ pc' = "source"
                 /\ UNCHANGED exitcode
       ELSE IF ~ env.folder_ok
            THEN Exit(2) /\ UNCHANGED targets
            ELSE /\ targets' = env.found
                 /\ IF env.found = <<>>
                    THEN Exit(0)
                    ELSE pc' = "source" /\ UNCHANGED exitcode
    /\ UNCHANGED <<libc, call, ret, args, env, src_index, idx,
                   processed, succeeded, failed, last>>

\* sync mode set-up: the source must be a file (with --file) or a folder
\* (with --folder), and a folder is indexed once
SetupSource ==
    /\ pc = "source"
    /\ IF ~ args.sync_from
       THEN /\ pc' = "loop"
            /\ UNCHANGED <<exitcode, src_index>>
       ELSE IF args.file
       THEN IF env.src_kind # "file"
            THEN Exit(2) /\ UNCHANGED src_index
            ELSE /\ pc' = "loop"
                 /\ UNCHANGED <<exitcode, src_index>>
       ELSE IF env.src_kind # "dir"
            THEN Exit(2) /\ UNCHANGED src_index
            ELSE /\ src_index' = build_source_index(env.src_listing,
                                                    args.case_insensitive)
                 /\ pc' = "loop"
                 /\ UNCHANGED exitcode
    /\ UNCHANGED <<libc, call, ret, args, env, targets, idx,
                   processed, succeeded, failed, last>>

\* folder sync of one target once the lookup returned match (NoPath for
\* None): the "No match" failure, or the sync from the matched source
SyncMatched(path, match, q, o) ==
    IF match = NoPath
    THEN Outcome(Result(path, FALSE,
                        <<"No match in source folder by basename">>, <<>>),
                 "nomatch", NoPath)
    ELSE Outcome(sync_from_source(match, path, args.shift_hours,
                                  args.set_offset, q, o),
                 "sync", match)

\* what the loop body does with one target: the branch taken and its result
LoopBody(path, q, o) ==
    IF args.sync_from
    THEN IF args.file
         THEN Outcome(sync_from_source(SyncSourceFile, path, args.shift_hours,
                                       args.set_offset, q, o),
                      "sync", SyncSourceFile)
         ELSE SyncMatched(path,
                          IF src_index # <<>>
                          THEN find_source_match(src_index, path,
                                                 args.case_insensitive)
                          ELSE NoPath,
                          q, o)
    ELSE Outcome(restore_from_own_metadata(path, args.shift_hours,
                                           args.set_offset, q, o),
                 "restore", NoPath)

\* The outcome of an invocation that is never made is not part of a run:
\* such entries of the oracle are TRUE, and a query that is never made is
\* the empty answer.  A retry is made only after a failed first attempt and
\* the filesystem copy only after a successful metadata copy.
NoUnusedRetry(o) ==
    /\ o["copy_fs"] => o["copy_fs_retry"]
    /\ o["set_fs"] => o["set_fs_retry"]
    /\ ~ o["copy_meta"] => o["copy_fs"] /\ o["copy_fs_retry"]

NoCopy(o) == o["copy_meta"] /\ o["copy_fs"] /\ o["copy_fs_retry"]

NoWrite(o) == o["set_meta"] /\ o["set_fs"] /\ o["set_fs_retry"]

\* restore: no copy is made; writes follow a successful query only, and the
\* filesystem write a successful metadata write only
RestoreRuns ==
    { qo \in QueryOutcomes \X Oracles :
        LET q == qo[1]  o == qo[2] IN
        /\ NoUnusedRetry(o)
        /\ NoCopy(o)
        /\ q.kind # "ok" => NoWrite(o)
        /\ ~ o["set_meta"] => o["set_fs"] /\ o["set_fs_retry"] }

\* sync without adjustment: the two copies and nothing else
SyncCopyRuns ==
    { qo \in QueryOutcomes \X Oracles :
        LET q == qo[1]  o == qo[2] IN
        /\ NoUnusedRetry(o)
        /\ q = QueryOk(<<>>)
        /\ NoWrite(o) }

\* sync with adjustment: re-read and writes only after both copies succeeded
SyncAdjustRuns ==
    { qo \in QueryOutcomes \X Oracles :
        LET q == qo[1]  o == qo[2]
            copies_ok == o["copy_meta"] /\ o["copy_fs_retry"]
        IN
        /\ NoUnusedRetry(o)
        /\ ~ copies_ok => q = QueryOk(<<>>)
        /\ (~ copies_ok \/ q.kind # "ok") => NoWrite(o) }

ToolRuns ==
    IF ~ args.sync_from THEN RestoreRuns
    ELSE IF AdjustmentRequested(args.shift_hours, args.set_offset)
    THEN SyncAdjustRuns
    ELSE SyncCopyRuns

\* a loop iteration without the except Exception handler: an exception
\* that escapes the per-file operation ends the process
ProcessTargetUncaught ==
    /\ pc = "loop"
    /\ idx < Len(targets)
    /\ \E qo \in ToolRuns :
         LET r == LoopBody(targets[idx + 1], qo[1], qo[2]) IN
         /\ last' = r
         /\ IF r.raised
            THEN /\ Exit(1)
                 /\ UNCHANGED <<succeeded, failed>>
            ELSE /\ UNCHANGED <<pc, exitcode>>
                 /\ IF r.ok
                    THEN succeeded' = succeeded + 1 /\ UNCHANGED failed
                    ELSE failed' = failed + 1 /\ UNCHANGED succeeded
    /\ idx' = idx + 1
    /\ processed' = processed + 1
    /\ UNCHANGED <<libc, call, ret, args, env, targets, src_index>>

\* what main does with the outcome r of one loop body: print it (the
\* except Exception handler prints "Unexpected error: ...") and count it
Count(r) ==
    /\ last' = IF r.raised
               THEN [r EXCEPT !.msg = <<"Unexpected error: ">> \o r.msg]
               ELSE r
    /\ IF r.ok
       THEN succeeded' = succeeded + 1 /\ UNCHANGED failed
       ELSE failed' = failed + 1 /\ UNCHANGED succeeded

\* one iteration of the per-file loop, the except Exception handler included
ProcessTarget ==
    /\ pc = "loop"
    /\ idx < Len(targets)
    /\ \E qo \in ToolRuns : Count(LoopBody(targets[idx + 1], qo[1], qo[2]))
    /\ idx' = idx + 1
    /\ processed' = processed + 1
    /\ UNCHANGED <<libc, call, ret, pc, args, env, targets, src_index,
                   exitcode>>

\* KeyboardInterrupt inside the try block: the loop is left at once
Interrupt ==
    /\ pc = "loop"
    /\ idx < Len(targets)
    /\ idx' = idx + 1
    /\ processed' = processed + 1
    /\ last' = [NoOutcome EXCEPT !.path = targets[idx + 1],
                                 !.mode = "interrupted"]
    /\ pc' = "summary"
    /\ UNCHANGED <<libc, call, ret, args, env, targets, src_index,
                   succeeded, failed, exitcode>>

\* the summary line and the exit status
Summary ==
    /\ \/ pc = "loop" /\ idx = Len(targets)
       \/ pc = "summary"
    /\ IF failed > 0 THEN Exit(1) ELSE Exit(0)
    /\ UNCHANGED <<libc, call, ret, args, env, targets, src_index, idx,
                   processed, succeeded, failed, last>>

----------------------------------------------------------------------------
(* Specification of apply_time_adjustments over bounded inputs             *)

AdjustCalls ==
    { [fn |-> "apply_time_adjustments",
       date |-> d, gap |-> g, clock |-> c, frac |-> f, zone |-> z,
       value |-> d \o g \o c \o f \o z,
       shift_hours |-> h, set_offset |-> so] :
         d \in DateTexts, g \in GapTexts, c \in ClockTexts,
         f \in FracTexts, z \in ZoneTexts,
         h \in ShiftArgs, so \in OffsetArgs }

InitAdjust ==
    /\ libc \in Platforms
    /\ call \in AdjustCalls
    /\ ret = NoRet
    /\ IdleRun

Adjust ==
    /\ call.fn = "apply_time_adjustments"
    /\ ret = NoRet
    /\ ret' = apply_time_adjustments(call.value, call.shift_hours,
                                     call.set_offset)
    /\ UNCHANGED <<libc, call, runvars>>

NextAdjust == Adjust

SpecAdjust == InitAdjust /\ [][NextAdjust]_vars

----------------------------------------------------------------------------
(* Specification of pick_best_time_tag over bounded tag sets               *)

MaxTags == 3

TagUniverse ==
    << "EXIF:DateTimeOriginal", "EXIF:CreateDate", "XMP:CreateDate",
       "QuickTime:CreateDate", "System:FileModifyDate",
       "Custom:DateTimeOriginal" >>

TagValues ==
    { <<" ">>, NaiveValue, ZonedValue, <<" ">> \o ZonedValue \o <<"\n">>,
      UtcValue }

Reverse(q) == [i \in 1..Len(q) |-> q[Len(q) + 1 - i]]

\* the JSON object holding the names of S with values f, in the order of names
RECURSIVE ObjectOf(_, _, _)
ObjectOf(names, S, f) ==
    IF names = <<>> THEN <<>>
    ELSE IF Head(names) \in S
    THEN <<<<Head(names), f[Head(names)]>>>> \o ObjectOf(Tail(names), S, f)
    ELSE ObjectOf(Tail(names), S, f)

TagSets ==
    UNION { UNION { { ObjectOf(TagUniverse, S, f),
                      ObjectOf(Reverse(TagUniverse), S, f) } :
                    f \in [S -> TagValues] } :
            S \in { T \in SUBSET {TagUniverse[i] : i \in 1..Len(TagUniverse)} :
                      Cardinality(T) <= MaxTags } }

PickPaths ==
    { [stem |-> "img_001", ext |-> ".mp4"],
      [stem |-> "IMG_001", ext |-> ".JPG"],
      [stem |-> "Notes",   ext |-> ".txt"] }

InitPick ==
    /\ libc = "pads_year"
    /\ call \in { [fn |-> "pick_best_time_tag", tags |-> t, path |-> p] :
                    t \in TagSets, p \in PickPaths }
    /\ ret = NoRet
    /\ IdleRun

Pick ==
    /\ call.fn = "pick_best_time_tag"
    /\ ret = NoRet
    /\ ret' = [ok |-> TRUE,
               picked |-> pick_best_time_tag(call.tags, call.path)]
    /\ UNCHANGED <<libc, call, runvars>>

NextPick == Pick

SpecPick == InitPick /\ [][NextPick]_vars

\* the list the selector walks for a path: the priority list of its media
\* kind followed by the filesystem-modify fallback field
KindList(path) ==
    (IF is_video(path) THEN VIDEO_TAG_PRIORITY
     ELSE IF is_photo(path) THEN PHOTO_TAG_PRIORITY
     ELSE VIDEO_TAG_PRIORITY \o PHOTO_TAG_PRIORITY)
    \o <<"System:FileModifyDate">>

\* position i of the list is an entry of C for the tag set
InC(tags, L, i) ==
    HasTag(tags, L[i]) /\ strip(TagValue(tags, L[i])) # <<>>

\* the value ends in Z or in a signed HH:MM
EndsInZone(v) ==
    \/ (Len(v) >= 1 /\ v[Len(v)] = "Z")
    \/ /\ Len(v) >= 6
       /\ v[Len(v) - 5] \in {"+", "-"}
       /\ v[Len(v) - 4] \in Digits /\ v[Len(v) - 3] \in Digits
       /\ v[Len(v) - 2] = ":"
       /\ v[Len(v) - 1] \in Digits /\ v[Len(v)] \in Digits

----------------------------------------------------------------------------
(* Specification of the two writers over bounded inputs                    *)

WriteValues ==
    { NaiveValue, ZonedValue, UtcValue,
      <<"n","o","t"," ","a"," ","d","a","t","e">> }

\* oracles that differ from all-TRUE on the given sites only
OraclesOn(sites) == { o \in Oracles : \A x \in Sites \ sites : o[x] }

InitWrite ==
    /\ libc = "pads_year"
    /\ call \in
         { [fn |-> "set_metadata_dates_from_value",
            path |-> p, value |-> v, o |-> o] :
              p \in PickPaths, v \in WriteValues,
              o \in OraclesOn({"set_meta"}) }
         \cup
         { [fn |-> "set_filesystem_dates_from_value",
            path |-> p, value |-> v, o |-> o] :
              p \in PickPaths, v \in WriteValues,
              o \in OraclesOn({"set_fs", "set_fs_retry"}) }
    /\ ret = NoRet
    /\ IdleRun

WriteMetadata ==
    /\ call.fn = "set_metadata_dates_from_value"
    /\ ret = NoRet
    /\ ret' = set_metadata_dates_from_value(call.path, call.value, call.o)
    /\ UNCHANGED <<libc, call, runvars>>

WriteFilesystem ==
    /\ call.fn = "set_filesystem_dates_from_value"
    /\ ret = NoRet
    /\ ret' = set_filesystem_dates_from_value(call.path, call.value, call.o)
    /\ UNCHANGED <<libc, call, runvars>>

NextWrite == WriteMetadata \/ WriteFilesystem

SpecWrite == InitWrite /\ [][NextWrite]_vars

----------------------------------------------------------------------------
(* Specification of main() over bounded runs                               *)

\* No timestamp of a run has a year below 1000, where alone the platforms
\* differ, so the runs are those of one platform.
Init ==
    /\ libc = "pads_year"
    /\ call = <<>>
    /\ ret = NoRet
    /\ args \in RunArgs
    /\ env \in RunEnvs(args)
    /\ pc = "start"
    /\ targets = <<>>
    /\ src_index = <<>>
    /\ idx = 0
    /\ processed = 0
    /\ succeeded = 0
    /\ failed = 0
    /\ exitcode = NoExit
    /\ last = NoOutcome

Next ==
    \/ EnsureExiftool
    \/ ResolveTargets
    \/ SetupSource
    \/ ProcessTarget
    \/ Interrupt
    \/ Summary

Spec == Init /\ [][Next]_vars

----------------------------------------------------------------------------
(* Claims about the writers                                                *)

IsPrefix(a, b) == Len(a) <= Len(b) /\ SubSeq(b, 1, Len(a)) = a

IsSuffix(a, b) ==
    Len(a) <= Len(b) /\ SubSeq(b, Len(b) - Len(a) + 1, Len(b)) = a

\* a occurs in b as a contiguous run
Contains(b, a) ==
    \E i \in 0..(Len(b) - Len(a)) : SubSeq(b, i + 1, i + Len(a)) = a

\* the fields an invocation assigns, as a set
AssignedFields(inv) == {inv.assigns[i][1] : i \in 1..Len(inv.assigns)}

\* every assignment of the invocation carries value v
AllAssign(inv, v) == \A i \in 1..Len(inv.assigns) : inv.assigns[i][2] = v

\* C3: the filesystem write first sets create-time and modify-time in one
\* invocation; only if that fails it retries once with modify-time alone.
\* First attempt ok: success, message without annotation, no retry.  Retry
\* ok: success, message beginning "(create date unsupported)".  Both fail:
\* failure, message made of the first output followed by the retry's.
C3_FilesystemWriteTwoStep ==
    (call.fn = "set_filesystem_dates_from_value" /\ Returned) =>
    LET t == ret.trace IN
    /\ Len(t) \in {1, 2}
    /\ t[1].file = call.path
    /\ AssignedFields(t[1]) = {"FileCreateDate", "FileModifyDate"}
    /\ AllAssign(t[1], call.value)
    /\ t[1].ok = call.o["set_fs"]
    /\ t[1].ok =>
          /\ Len(t) = 1
          /\ ret.ok
          /\ ~ Contains(ret.msg, <<"(create date unsupported) ">>)
    /\ ~ t[1].ok =>
          /\ Len(t) = 2
          /\ t[2].file = call.path
          /\ AssignedFields(t[2]) = {"FileModifyDate"}
          /\ AllAssign(t[2], call.value)
          /\ t[2].ok = call.o["set_fs_retry"]
          /\ t[2].ok =>
                /\ ret.ok
                /\ IsPrefix(<<"(create date unsupported) ">>, ret.msg)
          /\ ~ t[2].ok =>
                /\ ~ ret.ok
                /\ IsPrefix(ErrOutput("set_fs"), ret.msg)
                /\ IsSuffix(ErrOutput("set_fs_retry"), ret.msg)
                /\ Len(ret.msg) >= Len(ErrOutput("set_fs"))
                                     + Len(ErrOutput("set_fs_retry"))

\* the create-time write was refused and the modify-only retry went through
C3_Witness ==
    /\ call.fn = "set_filesystem_dates_from_value" /\ Returned
    /\ ~ call.o["set_fs"] /\ call.o["set_fs_retry"]
    /\ Len(ret.trace) = 2
    /\ ret.ok
    /\ ret.msg[1] = "(create date unsupported) "

\* the part of C8 that holds for any field count: one invocation on the
\* file, every field given the same literal value, a non-zero exit handed
\* back as a failure carrying the captured output
MetadataWriteShape ==
    LET t == ret.trace IN
    /\ Len(t) = 1
    /\ t[1].file = call.path
    /\ AllAssign(t[1], call.value)
    /\ Cardinality(AssignedFields(t[1])) = Len(t[1].assigns)
    /\ ret.ok = call.o["set_meta"]
    /\ ~ call.o["set_meta"] => ret.msg = ErrOutput("set_meta")

----------------------------------------------------------------------------
(* Claims about restore, sync and main()                                   *)

WriteEvents == {"set_meta", "set_fs", "set_fs_retry"}

FsWriteEvents == {"set_fs", "set_fs_retry"}

CopyEvents == {"copy_meta", "copy_fs", "copy_fs_retry"}

FsCopyEvents == {"copy_fs", "copy_fs_retry"}

\* position of an event in the order query, select, adjust, metadata
\* write, filesystem write
StageRank(ev) ==
    CASE ev = "query"        -> 1
      [] ev = "select"       -> 2
      [] ev = "adjust"       -> 3
      [] ev = "set_meta"     -> 4
      [] ev = "set_fs"       -> 5
      [] ev = "set_fs_retry" -> 5
      [] OTHER               -> 0

Happened(t, evs) == \E i \in 1..Len(t) : t[i].ev \in evs

Succeeded(t, evs) == \E i \in 1..Len(t) : t[i].ev \in evs /\ t[i].ok

Failed(t, evs) == \E i \in 1..Len(t) : t[i].ev \in evs /\ ~ t[i].ok

\* C2: in a restore of any target the stages run in the order query,
\* select, adjust, metadata write, filesystem write, each on the target and
\* each only after the one before it succeeded (the second filesystem
\* attempt follows a failed first one); no write follows a failed selection
\* or adjustment, no filesystem write a failed metadata write; the result
\* is success only if both writes succeeded, and a failed filesystem write
\* after a successful metadata write gives a failure whose message starts
\* with "Metadata OK, filesystem FAILED".
C2_RestoreStagesInOrder ==
    last.mode = "restore" =>
      LET t == last.trace
          n == Len(t)
      IN
      /\ n >= 1
      /\ t[1].ev = "query"
      /\ \A i \in 1..n : StageRank(t[i].ev) >= 1 /\ t[i].file = last.path
      /\ \A i \in 2..n :
           \/ StageRank(t[i].ev) = StageRank(t[i-1].ev) + 1 /\ t[i-1].ok
           \/ /\ t[i].ev = "set_fs_retry"
              /\ t[i-1].ev = "set_fs"
              /\ ~ t[i-1].ok
      /\ Failed(t, {"query", "select", "adjust"}) => ~ Happened(t, WriteEvents)
      /\ Failed(t, {"set_meta"}) => ~ Happened(t, FsWriteEvents)
      /\ last.ok <=> Succeeded(t, {"set_meta"}) /\ Succeeded(t, FsWriteEvents)
      /\ (Succeeded(t, {"set_meta"}) /\ ~ Succeeded(t, FsWriteEvents)) =>
           /\ ~ last.ok
           /\ IsPrefix(<<"Metadata OK, filesystem FAILED: ">>, last.msg)

\* a restore whose metadata write succeeded and whose filesystem write
\* failed in both attempts
C2_Witness ==
    /\ last.mode = "restore"
    /\ Succeeded(last.trace, {"set_meta"})
    /\ Failed(last.trace, {"set_fs_retry"})
    /\ ~ last.ok

\* what C4 says of every sync about order and files: the metadata copy
\* comes first and reads the source; every copy precedes every other
\* event; every event acts on the destination, which is not the source;
\* the tags are read from the destination; only the copies read the source
SyncOrderAndFiles ==
    LET t == last.trace
        n == Len(t)
    IN
    /\ n >= 1
    /\ t[1].ev = "copy_meta"
    /\ \A i \in 1..n :
         /\ t[i].file = last.path
         /\ t[i].file # last.src
         /\ t[i].from = (IF t[i].ev \in CopyEvents THEN last.src ELSE NoPath)
    /\ \A i, j \in 1..n :
         (t[i].ev \in CopyEvents /\ t[j].ev \notin CopyEvents) => i < j
    /\ Happened(t, WriteEvents) =>
         \E i \in 1..n : t[i].ev = "query" /\ t[i].file = last.path /\ t[i].ok

SyncRequested == AdjustmentRequested(args.shift_hours, args.set_offset)

SyncCopiesOk ==
    /\ Succeeded(last.trace, {"copy_meta"})
    /\ Succeeded(last.trace, FsCopyEvents)

\* C4 as stated: in every sync the two copies come first, value-based
\* writes happen if and only if an adjustment was requested and both
\* copies succeeded, the value is derived from tags read from the
\* destination after the copy, and nothing writes to the source.
C4_WritesIffRequestedAndCopied ==
    last.mode = "sync" =>
      /\ SyncOrderAndFiles
      /\ Happened(last.trace, WriteEvents) <=> (SyncRequested /\ SyncCopiesOk)

\* C4 as amended: in every sync the metadata copy comes first and the
\* filesystem-date copy follows exactly when it succeeded; the destination
\* is re-read exactly when an adjustment was requested and both copies
\* succeeded; value-based writes happen exactly when in addition the
\* re-read succeeded, a field was selected and the adjustment accepted its
\* value; the value comes from the destination's tags and nothing writes to
\* the source.
C4_WritesIffAdjustedAfterCopies ==
    last.mode = "sync" =>
      LET t == last.trace IN
      /\ SyncOrderAndFiles
      /\ Happened(t, FsCopyEvents) <=> Succeeded(t, {"copy_meta"})
      /\ Happened(t, {"query"}) <=> (SyncRequested /\ SyncCopiesOk)
      /\ Happened(t, {"select"}) <=> Succeeded(t, {"query"})
      /\ Happened(t, {"adjust"}) <=> Succeeded(t, {"select"})
      /\ Happened(t, {"set_meta"}) <=> Succeeded(t, {"adjust"})
      /\ Happened(t, {"set_fs"}) <=> Succeeded(t, {"adjust"})

\* a sync with a shift whose copies succeeded and whose re-read,
\* selection, adjustment and writes all took place
C4_Witness ==
    /\ last.mode = "sync"
    /\ SyncRequested
    /\ SyncCopiesOk
    /\ Succeeded(last.trace, {"query"})
    /\ Succeeded(last.trace, {"set_meta"})
    /\ Succeeded(last.trace, FsWriteEvents)
    /\ last.ok

\* the set-up errors C5 names: no target matched, the target is not a
\* folder, the sync source is missing or of the wrong type
SetupError ==
    \/ args.file /\ env.found = <<>>
    \/ ~ args.file /\ ~ env.folder_ok
    \/ args.sync_from /\ env.src_kind # (IF args.file THEN "file" ELSE "dir")

\* C5: when the process has exited, the exit code is 1 exactly when at
\* least one file failed, 2 exactly when a set-up error occurred, and 0
\* otherwise; a set-up error is detected before any file is processed.
C5_ExitStatus ==
    pc = "exited" =>
      /\ exitcode = 1 <=> failed > 0
      /\ exitcode = 2 <=> SetupError
      /\ exitcode = 0 <=> (failed = 0 /\ ~ SetupError)
      /\ SetupError => processed = 0

\* C6, what holds in every state: while the loop runs the process has not
\* exited, a next step is possible, and the targets before idx were each
\* processed once, in order, and each counted as succeeded or failed; a
\* run that exits after the loop without an interrupt has processed every
\* target and exits through the summary with processed = succeeded +
\* failed = number of targets.
PerFileOutcomeKeepsRunning ==
    /\ pc = "loop" =>
         /\ exitcode = NoExit
         /\ idx <= Len(targets)
         /\ processed = idx
         /\ succeeded + failed = processed
         /\ idx > 0 => last.path = targets[idx] /\ last.mode # "interrupted"
    /\ pc \in {"loop", "summary"} => ENABLED Next
    /\ (pc = "exited" /\ idx > 0 /\ last.mode # "interrupted") =>
         /\ idx = Len(targets)
         /\ processed = Len(targets)
         /\ succeeded + failed = processed
         /\ last.path = targets[idx]
         /\ exitcode = (IF failed > 0 THEN 1 ELSE 0)

\* C6, what holds of every step: a step taken in the loop either handles
\* the next target in enumeration order, counts it once, as failed unless
\* the operation succeeded, and stays in the run, or is the summary after
\* the last target.
LoopStepGoesOn ==
    pc = "loop" =>
      \/ /\ idx < Len(targets)
         /\ idx' = idx + 1
         /\ processed' = processed + 1
         /\ last'.path = targets[idx']
         /\ exitcode' = NoExit
         /\ \/ /\ pc' = "loop"
               /\ succeeded' + failed' = succeeded + failed + 1
               /\ failed' = failed + 1 <=> ~ last'.ok
            \/ pc' = "summary" /\ last'.mode = "interrupted"
      \/ /\ idx = Len(targets)
         /\ pc' = "exited"
         /\ processed' = processed

\* C6: no per-file outcome ends the run: each target is processed exactly
\* once in enumeration order and counted as succeeded or failed, and the
\* summary is always reached, since the loop is never stuck and every step
\* of it moves on to the next target until none is left.
C6_PerFileOutcomeNeverEndsRun ==
    /\ [] PerFileOutcomeKeepsRunning
    /\ [][LoopStepGoesOn]_vars

\* a run of two targets still in its loop after an exception escaped from
\* the operation on the first: it is counted as failed and the second comes
\* next
C6_Witness ==
    /\ pc = "loop"
    /\ Len(targets) = 2
    /\ idx = 1
    /\ last.raised
    /\ failed = 1
    /\ processed = 1
    /\ exitcode = NoExit

\* the source files the index can hold, and the comparisons of the lookup
IndexedSources ==
    { env.src_listing[i] : i \in { j \in 1..Len(env.src_listing) :
                                      ~ is_hidden(env.src_listing[j]) } }

SameStem(a, b) ==
    IF args.case_insensitive
    THEN lower(a.stem) = lower(b.stem)
    ELSE a.stem = b.stem

SameExt(a, b) == lower(a.ext) = lower(b.ext)

\* the lookup result C7 describes for the target just processed
LookupResult ==
    LET exact  == { s \in IndexedSources :
                      SameStem(s, last.path) /\ SameExt(s, last.path) }
        bystem == { s \in IndexedSources : SameStem(s, last.path) }
    IN IF exact # {}
       THEN last.mode = "sync" /\ last.src \in exact
       ELSE IF bystem # {}
       THEN last.mode = "sync" /\ last.src \in bystem
       ELSE last.mode = "nomatch" /\ ~ last.ok /\ last.trace = <<>>

\* C7: in folder sync every processed target is synced from a source of
\* the same stem and extension when the index holds one, otherwise from a
\* source of the same stem, and otherwise has no match and is counted as
\* failed; stems are compared ignoring case only when case-insensitive
\* matching is enabled (extensions are compared ignoring case).
C7_SourceLookup ==
    [][ ( /\ pc = "loop"
          /\ args.sync_from
          /\ ~ args.file
          /\ idx' = idx + 1
          /\ last'.mode # "interrupted" )
        => /\ LookupResult'
           /\ last'.mode = "nomatch" =>
                failed' = failed + 1 /\ succeeded' = succeeded ]_vars

\* case-insensitive matching disabled, the source folder holds
\* IMG_001.MOV only, and the target img_001.mp4 found no match
C7_Witness ==
    /\ args.sync_from
    /\ ~ args.file
    /\ ~ args.case_insensitive
    /\ env.src_listing = << [stem |-> "IMG_001", ext |-> ".MOV"] >>
    /\ last.path = [stem |-> "img_001", ext |-> ".mp4"]
    /\ last.mode = "nomatch"
    /\ failed >= 1

\* a failed invocation that makes the operation fail: every failed one but
\* a first filesystem attempt whose second attempt succeeded
Decisive(t, i) ==
    /\ t[i].ev \in Sites
    /\ ~ t[i].ok
    /\ ~ ( /\ t[i].ev \in {"set_fs", "copy_fs"}
           /\ i < Len(t)
           /\ t[i+1].ok )

\* C9: whenever a tool invocation made for a file exits non-zero and this
\* makes the file's operation fail, the captured output of that invocation
\* appears in the file's failure message, in restore and in sync.
C9_FailureMessageCarriesOutput ==
    (last.mode \in {"restore", "sync"} /\ ~ last.ok) =>
      \A i \in 1..Len(last.trace) :
        Decisive(last.trace, i) =>
          Contains(last.msg, ErrOutput(last.trace[i].ev))

ValidOverrides ==
    { <<"Z">>, <<"+","0","7",":","0","0">>, <<"-","0","3",":","3","0">> }

\* C10: for every timestamp the parser accepts and every valid override,
\* apply_time_adjustments with zero shift returns the input's date, time
\* and fraction text unchanged, followed by the override.
C10_OverrideOnlyRelabels ==
    ( /\ Returned
      /\ call.fn = "apply_time_adjustments"
      /\ parse_exif_dt(call.value).ok
      /\ call.shift_hours = 0
      /\ call.set_offset \in ValidOverrides )
    => /\ ret.ok
       /\ ret.s = call.date \o <<" ">> \o call.clock \o call.frac
                    \o call.set_offset

\* C11: for every timestamp of the pattern YYYY:MM:DD HH:MM:SS (one
\* space, optional fraction, optional zone suffix) that the parser accepts,
\* apply_time_adjustments with zero shift and no offset override returns
\* exactly the input text.
C11_ParseFormatRoundTrip ==
    ( /\ Returned
      /\ call.fn = "apply_time_adjustments"
      /\ call.gap = <<" ">>
      /\ parse_exif_dt(call.value).ok
      /\ call.shift_hours = 0
      /\ call.set_offset = <<>> )
    => /\ ret.ok
       /\ ret.s = call.value

============================================================================
